---- MODULE Spec2Model ----
(***************************************************************************)
(* Sales tracker: the SalesTracker component (cart, sale submission,       *)
(* fulfilment, snapshots and metrics) together with the store it talks to  *)
(* (tables products, sales, sale_items and the stock trigger).              *)
(*                                                                         *)
(* Every data-service call is asynchronous: the component sends a request, *)
(* the store handles it in a step of its own, and the component resumes in *)
(* a later step.  A handler's closure (the cart, products and customerName *)
(* of the render that created it) travels with its call.                   *)
(*                                                                         *)
(* The product Select and the quantity input are written by the user and   *)
(* by addToCart and read by addToCart alone: a click on Add is modelled    *)
(* with the values the two fields hold at that click, and addToCart yields *)
(* the values it leaves in them.  Toasts are output only and not kept.     *)
(***************************************************************************)
EXTENDS Integers, Sequences, FiniteSets, TLC

VARIABLES
    dbProducts,      \* store: table products, id -> row
    dbSales,         \* store: table sales, in insertion order
    dbItems,         \* store: table sale_items, in insertion order
    products,        \* useState<Product[]>
    sales,           \* useState<Sale[]>
    metrics,         \* useState<Metrics>
    customerName,    \* useState<string>, a sequence of characters
    cart,            \* useState<CartItem[]>
    isSubmitting,    \* useState(false)
    submissions,     \* handleSaleSubmit calls awaiting the store
    productFetches,  \* fetchProducts calls awaiting the store
    saleFetches,     \* fetchSales calls awaiting the store
    updates          \* markAsFulfilled calls awaiting the store

vars == <<dbProducts, dbSales, dbItems, products, sales, metrics, customerName,
          cart, isSubmitting, submissions,
          productFetches, saleFetches, updates>>

storeVars == <<dbProducts, dbSales, dbItems>>
formVars == <<customerName, cart>>
callVars == <<submissions, productFetches, saleFetches, updates>>


(***************************************************************************)
(* Bounds of the model.                                                    *)
(***************************************************************************)
\* Seeded stock of each product (the migration seeds 20).
InitStock == 1
\* Sales the session may record.
MaxSales == 1
\* Calls of one kind (fetchProducts, update) in flight at once.
MaxCalls == 1
\* fetchSales calls in flight at once.
MaxSaleFetches == 2
\* Largest quantity a cart entry is let grow to by merging.
MaxCartQty == InitStock + 1

(***************************************************************************)
(* Seed data of the migration.                                             *)
(***************************************************************************)
Price == 6900
Cost == 4050
\* The two seeded products, in the order of their names.
ProductIds == <<"p1", "p2">>
ProductName(id) == IF id = "p1" THEN "Keto Molde" ELSE "Keto Redondito"
SeedProduct(id) ==
    [id |-> id, name |-> ProductName(id), price |-> Price, cost |-> Cost,
     stock |-> InitStock]

Range(s) == {s[i] : i \in DOMAIN s}

(***************************************************************************)
(* JavaScript numbers and strings.  NaN is a value outside the range of    *)
(* every integer the model computes; the operators below propagate it the  *)
(* way IEEE arithmetic does, and every comparison with it is false.        *)
(***************************************************************************)
NaN == 0 - 1000000000
JSAdd(a, b) == IF a = NaN \/ b = NaN THEN NaN ELSE a + b
JSMul(a, b) == IF a = NaN \/ b = NaN THEN NaN ELSE a * b
JSLe(a, b) == a # NaN /\ b # NaN /\ a <= b
JSGt(a, b) == a # NaN /\ b # NaN /\ a > b
\* x || 0 on a number: 0 and NaN are falsy.
OrZero(x) == IF x = NaN \/ x = 0 THEN 0 ELSE x

DigitChars == <<"0", "1", "2", "3", "4", "5", "6", "7", "8", "9">>
IsDigit(c) == c \in Range(DigitChars)
DigitValue(c) == (CHOOSE i \in DOMAIN DigitChars : DigitChars[i] = c) - 1
IsSpace(c) == c = " "

RECURSIVE TrimStart(_)
TrimStart(s) ==
    IF s # <<>> /\ IsSpace(Head(s)) THEN TrimStart(Tail(s)) ELSE s

RECURSIVE TrimEnd(_)
TrimEnd(s) ==
    IF s # <<>> /\ IsSpace(s[Len(s)])
    THEN TrimEnd(SubSeq(s, 1, Len(s) - 1))
    ELSE s

\* String.prototype.trim
Trim(s) == TrimEnd(TrimStart(s))

RECURSIVE DigitPrefix(_, _)
DigitPrefix(s, acc) ==
    IF s = <<>> \/ ~IsDigit(Head(s))
    THEN acc
    ELSE DigitPrefix(Tail(s), acc * 10 + DigitValue(Head(s)))

\* parseInt(string): leading white space, an optional sign, then the longest
\* prefix of decimal digits; NaN when there is no digit.
parseInt(s) ==
    LET t == TrimStart(s)
        signed == t # <<>> /\ Head(t) \in {"-", "+"}
        u == IF signed THEN Tail(t) ELSE t
    IN  IF u = <<>> \/ ~IsDigit(Head(u)) THEN NaN
        ELSE IF signed /\ Head(t) = "-" THEN 0 - DigitPrefix(u, 0)
        ELSE DigitPrefix(u, 0)

(***************************************************************************)
(* Array helpers.                                                          *)
(***************************************************************************)
\* Array.prototype.find on the products snapshot: is there a match, and the
\* first match.
HasProduct(ps, id) == \E i \in DOMAIN ps : ps[i].id = id
FindProduct(ps, id) ==
    ps[CHOOSE i \in DOMAIN ps :
          ps[i].id = id /\ \A j \in DOMAIN ps : ps[j].id = id => i <= j]

InCart(c, id) == \E i \in DOMAIN c : c[i].product_id = id

RECURSIVE Filter(_, _)
\* the entries of sequence s whose index is in keep, in order
Filter(s, keep) ==
    IF s = <<>> THEN <<>>
    ELSE LET n == Len(s)
             front == Filter(SubSeq(s, 1, n - 1), keep)
         IN  IF n \in keep THEN Append(front, s[n]) ELSE front

RemoveAt(s, i) == SubSeq(s, 1, i - 1) \o SubSeq(s, i + 1, Len(s))

Reverse(s) == [i \in 1..Len(s) |-> s[Len(s) + 1 - i]]

(***************************************************************************)
(* The cart.                                                               *)
(***************************************************************************)
\* qty <= 0 || qty > product.stock
InvalidQuantityPositiveOnly(qty, product) == JSLe(qty, 0)
InvalidQuantity(qty, product) == JSLe(qty, 0) \/ JSGt(qty, product.stock)

\* the cart after an accepted add of qty units of product id
MergeAlwaysAppend(c, id, qty) ==
    Append(c, [product_id |-> id, quantity |-> qty])
MergeIntoCart(c, id, qty) ==
    IF InCart(c, id)
    THEN [i \in DOMAIN c |->
            IF c[i].product_id = id
            THEN [c[i] EXCEPT !.quantity = JSAdd(@, qty)]
            ELSE c[i]]
    ELSE Append(c, [product_id |-> id, quantity |-> qty])

\* addToCart with the two fields holding selectedProduct and quantity: the
\* cart and the fields it leaves, and whether it returned at a guard
addToCart(selectedProduct, quantity) ==
    LET rejected == [cart |-> cart, selectedProduct |-> selectedProduct,
                     quantity |-> quantity, accepted |-> FALSE]
    IN  IF selectedProduct = "" \/ quantity = <<>>
        THEN rejected
        ELSE IF ~HasProduct(products, selectedProduct)
        THEN rejected
        ELSE LET product == FindProduct(products, selectedProduct)
                 qty == parseInt(quantity)
             IN  IF InvalidQuantity(qty, product)
                 THEN rejected
                 ELSE [cart |-> MergeIntoCart(cart, selectedProduct, qty),
                       selectedProduct |-> "",
                       quantity |-> <<>>,
                       accepted |-> TRUE]

\* removeFromCart: cart.filter(item => item.product_id !== productId)
removeFromCart(c, productId) ==
    Filter(c, {i \in DOMAIN c : c[i].product_id # productId})

RECURSIVE CartTotalFrom(_, _, _)
CartTotalFrom(total, c, ps) ==
    IF c = <<>> THEN total
    ELSE LET item == Head(c)
             term == IF HasProduct(ps, item.product_id)
                     THEN JSMul(FindProduct(ps, item.product_id).price,
                                item.quantity)
                     ELSE 0
         IN  CartTotalFrom(JSAdd(total, term), Tail(c), ps)

\* getCartTotal over the cart and products of one render
getCartTotal(c, ps) == CartTotalFrom(0, c, ps)

(***************************************************************************)
(* Metrics.                                                                *)
(***************************************************************************)
RECURSIVE SumRevenueOfItems(_)
SumRevenueOfItems(ss) ==
    IF ss = <<>> THEN 0
    ELSE LET items == Head(ss).sale_items
         IN  (IF items = <<>> THEN 0
              ELSE items[1].subtotal
                     + SumRevenueOfItems(<<[Head(ss) EXCEPT
                                              !.sale_items = Tail(items)]>>))
             + SumRevenueOfItems(Tail(ss))
RECURSIVE SumRevenue(_)
SumRevenue(ss) ==
    IF ss = <<>> THEN 0 ELSE Head(ss).total_amount + SumRevenue(Tail(ss))

RECURSIVE ItemsUnits(_)
ItemsUnits(items) ==
    IF items = <<>> THEN 0 ELSE Head(items).quantity + ItemsUnits(Tail(items))

RECURSIVE ItemsProfitAbsentAtNoCost(_, _)
ItemsProfitAbsentAtNoCost(items, ps) ==
    IF items = <<>> THEN 0
    ELSE LET item == Head(items)
             itemProfit ==
                 IF HasProduct(ps, item.product_id)
                 THEN (item.unit_price - FindProduct(ps, item.product_id).cost)
                          * item.quantity
                 ELSE item.unit_price * item.quantity
         IN  itemProfit + ItemsProfitAbsentAtNoCost(Tail(items), ps)
RECURSIVE ItemsProfit(_, _)
ItemsProfit(items, ps) ==
    IF items = <<>> THEN 0
    ELSE LET item == Head(items)
             itemProfit ==
                 IF HasProduct(ps, item.product_id)
                 THEN (item.unit_price - FindProduct(ps, item.product_id).cost)
                          * item.quantity
                 ELSE 0
         IN  itemProfit + ItemsProfit(Tail(items), ps)

RECURSIVE SumUnits(_)
SumUnits(ss) ==
    IF ss = <<>> THEN 0
    ELSE ItemsUnits(Head(ss).sale_items) + SumUnits(Tail(ss))

RECURSIVE SumProfit(_, _)
SumProfit(ss, ps) ==
    IF ss = <<>> THEN 0
    ELSE ItemsProfit(Head(ss).sale_items, ps) + SumProfit(Tail(ss), ps)

calculateMetrics(salesData, productsData) ==
    [totalSales |-> Len(salesData),
     totalRevenue |-> SumRevenue(salesData),
     totalProfit |-> SumProfit(salesData, productsData),
     totalUnits |-> SumUnits(salesData)]

(***************************************************************************)
(* The store.                                                              *)
(***************************************************************************)
\* products.select("*").order("name")
SelectProducts == [i \in DOMAIN ProductIds |-> dbProducts[ProductIds[i]]]

\* sale_items (*, products (name)) of one sale
SaleItemsOf(saleId) ==
    LET mine == Filter(dbItems, {i \in DOMAIN dbItems : dbItems[i].sale_id = saleId})
    IN  [i \in DOMAIN mine |->
            [id |-> mine[i].id, sale_id |-> mine[i].sale_id,
             product_id |-> mine[i].product_id, quantity |-> mine[i].quantity,
             unit_price |-> mine[i].unit_price, subtotal |-> mine[i].subtotal,
             products |-> [name |-> dbProducts[mine[i].product_id].name]]]

\* sales.select("*, sale_items (...)").order("sale_date", descending)
SelectSales ==
    Reverse([i \in DOMAIN dbSales |->
                [id |-> dbSales[i].id,
                 customer_name |-> dbSales[i].customer_name,
                 status |-> dbSales[i].status,
                 total_amount |-> dbSales[i].total_amount,
                 sale_date |-> dbSales[i].sale_date,
                 sale_items |-> SaleItemsOf(dbSales[i].id)]])

\* The trigger on one inserted row: the products table after its UPDATE
\* and whether it raises.
CheckStockNever(tbl, row) == FALSE
CheckStock(tbl, row) == tbl[row.product_id].stock < 0

DecrementStockSkipped(tbl, row) == tbl
DecrementStock(tbl, row) ==
    [tbl EXCEPT ![row.product_id].stock = @ - row.quantity]

update_stock_on_sale_item(tbl, row) ==
    LET updated == DecrementStock(tbl, row)
    IN  [products |-> updated, raised |-> CheckStock(updated, row)]

RECURSIVE InsertRows(_, _, _)
\* INSERT of rows, one after the other, each followed by its AFTER INSERT
\* trigger; stops at the first row whose trigger raises.
InsertRows(rows, tbl, items) ==
    IF rows = <<>>
    THEN [products |-> tbl, items |-> items, raised |-> FALSE]
    ELSE LET row == [id |-> Len(items) + 1] @@ Head(rows)
             t == update_stock_on_sale_item(tbl, row)
         IN  IF t.raised
             THEN [products |-> t.products, items |-> Append(items, row),
                   raised |-> TRUE]
             ELSE InsertRows(Tail(rows), t.products, Append(items, row))

\* The statement is atomic: an exception undoes the rows and the trigger's
\* updates of the same statement.
StatementKeepsPartialWork(done, tbl, items) ==
    [products |-> done.products,
     items |-> IF done.raised
               THEN SubSeq(done.items, 1, Len(done.items) - 1)
               ELSE done.items,
     error |-> IF done.raised THEN "Insufficient stock for product" ELSE ""]
Statement(done, tbl, items) ==
    IF done.raised
    THEN [products |-> tbl, items |-> items,
          error |-> "Insufficient stock for product"]
    ELSE [products |-> done.products, items |-> done.items, error |-> ""]

\* from("sale_items").insert(rows)
InsertSaleItems(rows) ==
    Statement(InsertRows(rows, dbProducts, dbItems), dbProducts, dbItems)

(***************************************************************************)
(* Sale submission.                                                        *)
(***************************************************************************)
\* !customerName.trim()
NameMissingUntrimmed(name) == name = <<>>
NameMissing(name) == Trim(name) = <<>>

\* cart.length === 0
CartMissing(c) == Len(c) = 0

\* The call a submission starts: its closure and its position.
\*   sale_req  -> items_req             (the store inserted the Sale, and
\*                                       handleSaleSubmit sent the Line Items)
\*   items_req -> items_ok | items_err  (the store handled the Line Items)
NewSubmission ==
    [pc |-> "sale_req", cart |-> cart, products |-> products,
     customerName |-> customerName, saleId |-> 0]

\* handleSaleSubmit up to its first await: what it leaves in the state it
\* can write
handleSaleSubmit ==
    LET rejected == [isSubmitting |-> isSubmitting, submissions |-> submissions,
                     cart |-> cart, customerName |-> customerName]
    IN  IF NameMissing(customerName)
        THEN rejected
        ELSE IF CartMissing(cart)
        THEN rejected
        ELSE [rejected EXCEPT !.isSubmitting = TRUE,
                              !.submissions = Append(@, NewSubmission)]

\* the row of from("sales").insert({...})
SaleRow(sub) ==
    [customer_name |-> Trim(sub.customerName),
     total_amount |-> getCartTotal(sub.cart, sub.products),
     status |-> "not_fulfilled"]

\* product?.price || 0
UnitPrice(ps, id) ==
    IF HasProduct(ps, id) THEN OrZero(FindProduct(ps, id).price) ELSE 0

\* subtotal: (product?.price || 0) * item.quantity
SubtotalIsUnitPrice(ps, item) == UnitPrice(ps, item.product_id)
Subtotal(ps, item) == JSMul(UnitPrice(ps, item.product_id), item.quantity)

\* const saleItems = cart.map(...)
SaleItems(sub) ==
    [i \in DOMAIN sub.cart |->
        [sale_id |-> sub.saleId,
         product_id |-> sub.cart[i].product_id,
         quantity |-> sub.cart[i].quantity,
         unit_price |-> UnitPrice(sub.products, sub.cart[i].product_id),
         subtotal |-> Subtotal(sub.products, sub.cart[i])]]

NewFetch == [stage |-> "req", data |-> <<>>]

(***************************************************************************)
(* Initial state: the component has mounted and its first effect has sent  *)
(* fetchProducts() and fetchSales().                                       *)
(***************************************************************************)
Init ==
    /\ dbProducts = [id \in Range(ProductIds) |-> SeedProduct(id)]
    /\ dbSales = <<>>
    /\ dbItems = <<>>
    /\ products = <<>>
    /\ sales = <<>>
    /\ metrics = [totalSales |-> 0, totalRevenue |-> 0, totalProfit |-> 0,
                  totalUnits |-> 0]
    /\ customerName = <<>>
    /\ cart = <<>>
    /\ isSubmitting = FALSE
    /\ submissions = <<>>
    /\ productFetches = <<NewFetch>>
    /\ saleFetches = <<NewFetch>>
    /\ updates = <<>>

(***************************************************************************)
(* What the user can type and select.                                      *)
(***************************************************************************)
Names == {<<>>, <<" ">>, <<" ", "A">>}
QuantityInputs ==
    {<<>>, <<"0">>, <<"-", "1">>}
        \cup {<<DigitChars[d + 1]>> : d \in 1..(InitStock + 1)}
\* nothing selected, or one of the Select's items (the snapshot's products)
Selections == {""} \cup {products[i].id : i \in DOMAIN products}

(***************************************************************************)
(* Form actions.                                                           *)
(***************************************************************************)
\* onChange of the customer input
SetCustomerName(name) ==
    /\ name # customerName
    /\ customerName' = name
    /\ UNCHANGED <<storeVars, products, sales, metrics, cart, isSubmitting,
                   callVars>>

\* the Add button
AddToCart(selectedProduct, quantity) ==
    LET r == addToCart(selectedProduct, quantity)
    IN  /\ \A i \in DOMAIN r.cart :
              r.cart[i].quantity = NaN \/ r.cart[i].quantity <= MaxCartQty
        /\ cart' = r.cart
        /\ UNCHANGED <<storeVars, products, sales, metrics, customerName,
                       isSubmitting, callVars>>

\* the X button of a cart row
RemoveFromCart(productId) ==
    /\ InCart(cart, productId)
    /\ cart' = removeFromCart(cart, productId)
    /\ UNCHANGED <<storeVars, products, sales, metrics, customerName,
                   isSubmitting, callVars>>

\* the Record Sale button: disabled={isSubmitting || cart.length === 0}
RecordSaleDisabledCartOnly == Len(cart) = 0
RecordSaleDisabled == isSubmitting \/ Len(cart) = 0

\* the Sale rows inserted since the component mounted
SessionSales ==
    Cardinality({k \in DOMAIN dbSales : dbSales[k].sale_date > 0})

RecordSale ==
    LET r == handleSaleSubmit
    IN  /\ ~RecordSaleDisabled
        /\ r.submissions # submissions => SessionSales < MaxSales
        /\ isSubmitting' = r.isSubmitting
        /\ submissions' = r.submissions
        /\ cart' = r.cart
        /\ customerName' = r.customerName
        /\ UNCHANGED <<storeVars, products, sales, metrics, productFetches,
                       saleFetches, updates>>

(***************************************************************************)
(* The store handling the calls of a submission.                           *)
(***************************************************************************)
\* from("sales").insert(row).select().single(), and handleSaleSubmit resuming
\* without error: it changes nothing of the component and awaits
\* from("sale_items").insert(saleItems), so the two are one step
StoreInsertSaleRewritesTotals(i) ==
    /\ submissions[i].pc = "sale_req"
    /\ LET new == SaleRow(submissions[i])
           id == Len(dbSales) + 1
       IN  /\ new.total_amount # NaN
           /\ dbSales' = Append([k \in DOMAIN dbSales |->
                                    [dbSales[k] EXCEPT
                                        !.total_amount = new.total_amount]],
                                [id |-> id, sale_date |-> id] @@ new)
           /\ submissions' = [submissions EXCEPT ![i].pc = "items_req",
                                                 ![i].saleId = id]
    /\ UNCHANGED <<dbProducts, dbItems, products, sales, metrics, formVars,
                   isSubmitting, productFetches, saleFetches, updates>>
StoreInsertSale(i) ==
    /\ submissions[i].pc = "sale_req"
    /\ LET new == SaleRow(submissions[i])
           id == Len(dbSales) + 1
       IN  \* NaN is sent as null, which total_amount NUMERIC NOT NULL refuses
           /\ new.total_amount # NaN
           /\ dbSales' = Append(dbSales, [id |-> id, sale_date |-> id] @@ new)
           /\ submissions' = [submissions EXCEPT ![i].pc = "items_req",
                                                 ![i].saleId = id]
    /\ UNCHANGED <<dbProducts, dbItems, products, sales, metrics, formVars,
                   isSubmitting, productFetches, saleFetches, updates>>

\* from("sale_items").insert(saleItems)
StoreInsertSaleItems(i) ==
    /\ submissions[i].pc = "items_req"
    /\ LET done == InsertSaleItems(SaleItems(submissions[i]))
       IN  /\ dbProducts' = done.products
           /\ dbItems' = done.items
           /\ submissions' =
                 [submissions EXCEPT
                     ![i].pc = IF done.error = "" THEN "items_ok"
                               ELSE "items_err"]
    /\ UNCHANGED <<dbSales, products, sales, metrics, formVars, isSubmitting,
                   productFetches, saleFetches, updates>>

(***************************************************************************)
(* handleSaleSubmit resuming.                                              *)
(***************************************************************************)
\* An await that yields an error: the store refused the Line Items, or the
\* call did not reach the store (a network failure, or the Sale row refused
\* for its null total_amount) and nothing was changed there.
AwaitFailed(sub) == sub.pc \in {"sale_req", "items_req", "items_err"}

\* catch + finally: setIsSubmitting(false)
SubmitFailedClearsForm(i) ==
    /\ AwaitFailed(submissions[i])
    /\ isSubmitting' = FALSE
    /\ submissions' = RemoveAt(submissions, i)
    /\ cart' = <<>>
    /\ customerName' = <<>>
    /\ UNCHANGED <<storeVars, products, sales, metrics, productFetches,
                   saleFetches, updates>>
SubmitFailedDeletesSale(i) ==
    /\ AwaitFailed(submissions[i])
    /\ isSubmitting' = FALSE
    /\ submissions' = RemoveAt(submissions, i)
    /\ dbSales' = Filter(dbSales, {k \in DOMAIN dbSales :
                                      dbSales[k].id # submissions[i].saleId})
    /\ UNCHANGED <<dbProducts, dbItems, products, sales, metrics, formVars,
                   productFetches, saleFetches, updates>>
SubmitFailedKeepsSubmitting(i) ==
    /\ AwaitFailed(submissions[i])
    /\ submissions' = RemoveAt(submissions, i)
    /\ UNCHANGED <<storeVars, products, sales, metrics, formVars, isSubmitting,
                   productFetches, saleFetches, updates>>
SubmitFailed(i) ==
    /\ AwaitFailed(submissions[i])
    /\ isSubmitting' = FALSE
    /\ submissions' = RemoveAt(submissions, i)
    /\ UNCHANGED <<storeVars, products, sales, metrics, formVars,
                   productFetches, saleFetches, updates>>

\* the success path: reset of the form, fetchProducts(), fetchSales(), then
\* finally
SubmitSucceededKeepsForm(i) ==
    /\ submissions[i].pc = "items_ok"
    /\ Len(productFetches) < MaxCalls
    /\ Len(saleFetches) < MaxSaleFetches
    /\ productFetches' = Append(productFetches, NewFetch)
    /\ saleFetches' = Append(saleFetches, NewFetch)
    /\ isSubmitting' = FALSE
    /\ submissions' = RemoveAt(submissions, i)
    /\ UNCHANGED <<storeVars, products, sales, metrics, formVars, updates>>
SubmitSucceeded(i) ==
    /\ submissions[i].pc = "items_ok"
    /\ Len(productFetches) < MaxCalls
    /\ Len(saleFetches) < MaxSaleFetches
    /\ customerName' = <<>>
    /\ cart' = <<>>
    /\ productFetches' = Append(productFetches, NewFetch)
    /\ saleFetches' = Append(saleFetches, NewFetch)
    /\ isSubmitting' = FALSE
    /\ submissions' = RemoveAt(submissions, i)
    /\ UNCHANGED <<storeVars, products, sales, metrics, updates>>

(***************************************************************************)
(* fetchProducts and fetchSales.                                           *)
(***************************************************************************)
StoreSelectProducts(i) ==
    /\ productFetches[i].stage = "req"
    /\ productFetches' = [productFetches EXCEPT ![i].stage = "ok",
                                                ![i].data = SelectProducts]
    /\ UNCHANGED <<storeVars, products, sales, metrics, formVars,
                   isSubmitting, submissions, saleFetches, updates>>

\* fetchProducts resuming without error: setProducts(data), and the effect on
\* [sales, products] recomputes the metrics
ProductsFetched(i) ==
    /\ productFetches[i].stage = "ok"
    /\ products' = productFetches[i].data
    /\ metrics' = calculateMetrics(sales, products')
    /\ productFetches' = RemoveAt(productFetches, i)
    /\ UNCHANGED <<storeVars, sales, formVars, isSubmitting, submissions,
                   saleFetches, updates>>

\* fetchProducts resuming with an error (the call did not reach the store):
\* the catch
ProductsFetchFailedClearsSnapshot(i) ==
    /\ productFetches[i].stage = "req"
    /\ products' = <<>>
    /\ metrics' = calculateMetrics(sales, products')
    /\ productFetches' = RemoveAt(productFetches, i)
    /\ UNCHANGED <<storeVars, sales, formVars, isSubmitting, submissions,
                   saleFetches, updates>>
ProductsFetchFailed(i) ==
    /\ productFetches[i].stage = "req"
    /\ productFetches' = RemoveAt(productFetches, i)
    /\ UNCHANGED <<storeVars, products, sales, metrics, formVars,
                   isSubmitting, submissions, saleFetches, updates>>

StoreSelectSales(i) ==
    /\ saleFetches[i].stage = "req"
    /\ saleFetches' = [saleFetches EXCEPT ![i].stage = "ok",
                                          ![i].data = SelectSales]
    /\ UNCHANGED <<storeVars, products, sales, metrics, formVars,
                   isSubmitting, submissions, productFetches, updates>>

SalesFetched(i) ==
    /\ saleFetches[i].stage = "ok"
    /\ sales' = saleFetches[i].data
    /\ metrics' = calculateMetrics(sales', products)
    /\ saleFetches' = RemoveAt(saleFetches, i)
    /\ UNCHANGED <<storeVars, products, formVars, isSubmitting, submissions,
                   productFetches, updates>>

SalesFetchFailed(i) ==
    /\ saleFetches[i].stage = "req"
    /\ saleFetches' = RemoveAt(saleFetches, i)
    /\ UNCHANGED <<storeVars, products, sales, metrics, formVars,
                   isSubmitting, submissions, productFetches, updates>>

(***************************************************************************)
(* markAsFulfilled.                                                        *)
(***************************************************************************)
\* the Mark Fulfilled button of a sale listed under Orders to Fulfill
MarkAsFulfilled(k) ==
    /\ sales[k].status = "not_fulfilled"
    /\ Len(updates) < MaxCalls
    /\ updates' = Append(updates, [stage |-> "req", saleId |-> sales[k].id])
    /\ UNCHANGED <<storeVars, products, sales, metrics, formVars,
                   isSubmitting, submissions, productFetches, saleFetches>>

\* from("sales").update({ status: 'fulfilled' }).eq('id', saleId)
StoreUpdateStatusToggles(i) ==
    /\ updates[i].stage = "req"
    /\ dbSales' = [k \in DOMAIN dbSales |->
                      IF dbSales[k].id = updates[i].saleId
                      THEN [dbSales[k] EXCEPT
                               !.status = IF @ = "fulfilled"
                                          THEN "not_fulfilled"
                                          ELSE "fulfilled"]
                      ELSE dbSales[k]]
    /\ updates' = [updates EXCEPT ![i].stage = "ok"]
    /\ UNCHANGED <<dbProducts, dbItems, products, sales, metrics, formVars,
                   isSubmitting, submissions, productFetches, saleFetches>>
StoreUpdateStatusAllSales(i) ==
    /\ updates[i].stage = "req"
    /\ dbSales' = [k \in DOMAIN dbSales |->
                      [dbSales[k] EXCEPT !.status = "fulfilled"]]
    /\ updates' = [updates EXCEPT ![i].stage = "ok"]
    /\ UNCHANGED <<dbProducts, dbItems, products, sales, metrics, formVars,
                   isSubmitting, submissions, productFetches, saleFetches>>
StoreUpdateStatusChecksStatus(i) ==
    /\ updates[i].stage = "req"
    /\ \A k \in DOMAIN dbSales :
          dbSales[k].id = updates[i].saleId
          => dbSales[k].status = "not_fulfilled"
    /\ dbSales' = [k \in DOMAIN dbSales |->
                      IF dbSales[k].id = updates[i].saleId
                      THEN [dbSales[k] EXCEPT !.status = "fulfilled"]
                      ELSE dbSales[k]]
    /\ updates' = [updates EXCEPT ![i].stage = "ok"]
    /\ UNCHANGED <<dbProducts, dbItems, products, sales, metrics, formVars,
                   isSubmitting, submissions, productFetches, saleFetches>>
StoreUpdateStatus(i) ==
    /\ updates[i].stage = "req"
    /\ dbSales' = [k \in DOMAIN dbSales |->
                      IF dbSales[k].id = updates[i].saleId
                      THEN [dbSales[k] EXCEPT !.status = "fulfilled"]
                      ELSE dbSales[k]]
    /\ updates' = [updates EXCEPT ![i].stage = "ok"]
    /\ UNCHANGED <<dbProducts, dbItems, products, sales, metrics, formVars,
                   isSubmitting, submissions, productFetches, saleFetches>>

\* markAsFulfilled resuming without error: fetchSales()
StatusUpdated(i) ==
    /\ updates[i].stage = "ok"
    /\ Len(saleFetches) < MaxSaleFetches
    /\ saleFetches' = Append(saleFetches, NewFetch)
    /\ updates' = RemoveAt(updates, i)
    /\ UNCHANGED <<storeVars, products, sales, metrics, formVars,
                   isSubmitting, submissions, productFetches>>

\* markAsFulfilled resuming with an error: the catch
StatusUpdateFailed(i) ==
    /\ updates[i].stage = "req"
    /\ updates' = RemoveAt(updates, i)
    /\ UNCHANGED <<storeVars, products, sales, metrics, formVars,
                   isSubmitting, submissions, productFetches, saleFetches>>

(***************************************************************************)
(* The specification.                                                      *)
(***************************************************************************)
Next ==
    \/ \E name \in Names : SetCustomerName(name)
    \/ \E sel \in Selections, q \in QuantityInputs : AddToCart(sel, q)
    \/ \E id \in Range(ProductIds) : RemoveFromCart(id)
    \/ RecordSale
    \/ \E i \in DOMAIN submissions : StoreInsertSale(i)
    \/ \E i \in DOMAIN submissions : StoreInsertSaleItems(i)
    \/ \E i \in DOMAIN submissions : SubmitFailed(i)
    \/ \E i \in DOMAIN submissions : SubmitSucceeded(i)
    \/ \E i \in DOMAIN productFetches : StoreSelectProducts(i)
    \/ \E i \in DOMAIN productFetches : ProductsFetched(i)
    \/ \E i \in DOMAIN productFetches : ProductsFetchFailed(i)
    \/ \E i \in DOMAIN saleFetches : StoreSelectSales(i)
    \/ \E i \in DOMAIN saleFetches : SalesFetched(i)
    \/ \E i \in DOMAIN saleFetches : SalesFetchFailed(i)
    \/ \E k \in DOMAIN sales : MarkAsFulfilled(k)
    \/ \E i \in DOMAIN updates : StoreUpdateStatus(i)
    \/ \E i \in DOMAIN updates : StatusUpdated(i)
    \/ \E i \in DOMAIN updates : StatusUpdateFailed(i)

Spec == Init /\ [][Next]_vars

(***************************************************************************)
(* Every awaited call settles: the store answers or the client reports an  *)
(* error, and the handler resumes.  (SubmitSucceeded waits in the model    *)
(* for room in the fetch lists, hence the strong fairness.)                *)
(***************************************************************************)
SubmissionStep ==
    \E i \in DOMAIN submissions :
        \/ StoreInsertSale(i)
        \/ StoreInsertSaleItems(i)
        \/ SubmitFailed(i)
        \/ SubmitSucceeded(i)

ProductFetchStep ==
    \E i \in DOMAIN productFetches :
        \/ StoreSelectProducts(i)
        \/ ProductsFetched(i)
        \/ ProductsFetchFailed(i)

SaleFetchStep ==
    \E i \in DOMAIN saleFetches :
        \/ StoreSelectSales(i)
        \/ SalesFetched(i)
        \/ SalesFetchFailed(i)

\* The form filled over the first products snapshot, the first fetchSales
\* still in flight: the carts the Add button can have built, a name that
\* passes validation or one of blanks only.
FilledCarts ==
    {<<[product_id |-> "p1", quantity |-> 1]>>,
     <<[product_id |-> "p1", quantity |-> InitStock + 1]>>,
     <<[product_id |-> "p1", quantity |-> 1],
       [product_id |-> "p2", quantity |-> 1]>>,
     <<[product_id |-> "p2", quantity |-> 1],
       [product_id |-> "p1", quantity |-> InitStock + 1]>>}

InitSubmit ==
    /\ dbProducts = [id \in Range(ProductIds) |-> SeedProduct(id)]
    /\ dbSales = <<>>
    /\ dbItems = <<>>
    /\ products = [i \in DOMAIN ProductIds |-> SeedProduct(ProductIds[i])]
    /\ sales = <<>>
    /\ metrics = [totalSales |-> 0, totalRevenue |-> 0, totalProfit |-> 0,
                  totalUnits |-> 0]
    /\ customerName \in Names \ {<<>>}
    /\ cart \in FilledCarts
    /\ isSubmitting = FALSE
    /\ submissions = <<>>
    /\ productFetches = <<>>
    /\ saleFetches = <<NewFetch>>
    /\ updates = <<>>

\* the steps of the session once the form is filled: every step of Next but
\* the edits of the form
NextSubmit ==
    \/ RecordSale
    \/ SubmissionStep
    \/ ProductFetchStep
    \/ SaleFetchStep
    \/ \E k \in DOMAIN sales : MarkAsFulfilled(k)
    \/ \E i \in DOMAIN updates : StoreUpdateStatus(i)
    \/ \E i \in DOMAIN updates : StatusUpdated(i)
    \/ \E i \in DOMAIN updates : StatusUpdateFailed(i)

SubmitFairSpec ==
    /\ InitSubmit
    /\ [][NextSubmit]_vars
    /\ SF_vars(SubmissionStep)
    /\ WF_vars(ProductFetchStep)
    /\ WF_vars(SaleFetchStep)

(***************************************************************************)
(* The component mounting on a store that already holds a Sale recorded    *)
(* before (a reload of the page): the same steps from another start.       *)
(***************************************************************************)
EarlierSale ==
    [id |-> 1, sale_date |-> 0, customer_name |-> <<"B">>,
     status |-> "not_fulfilled", total_amount |-> Price]

EarlierItem ==
    [id |-> 1, sale_id |-> 1, product_id |-> "p1", quantity |-> 1,
     unit_price |-> Price, subtotal |-> Price]

InitReload ==
    /\ dbProducts = DecrementStock([id \in Range(ProductIds) |-> SeedProduct(id)],
                                   EarlierItem)
    /\ dbSales = <<EarlierSale>>
    /\ dbItems = <<EarlierItem>>
    /\ products = <<>>
    /\ sales = <<>>
    /\ metrics = [totalSales |-> 0, totalRevenue |-> 0, totalProfit |-> 0,
                  totalUnits |-> 0]
    /\ customerName = <<>>
    /\ cart = <<>>
    /\ isSubmitting = FALSE
    /\ submissions = <<>>
    /\ productFetches = <<NewFetch>>
    /\ saleFetches = <<NewFetch>>
    /\ updates = <<>>

ReloadSpec == InitReload /\ [][Next]_vars

\* The same session when no fetch fails: every step of Next but
\* ProductsFetchFailed and SalesFetchFailed.
NextFetchesSucceed ==
    \/ \E name \in Names : SetCustomerName(name)
    \/ \E sel \in Selections, q \in QuantityInputs : AddToCart(sel, q)
    \/ \E id \in Range(ProductIds) : RemoveFromCart(id)
    \/ RecordSale
    \/ \E i \in DOMAIN submissions : StoreInsertSale(i)
    \/ \E i \in DOMAIN submissions : StoreInsertSaleItems(i)
    \/ \E i \in DOMAIN submissions : SubmitFailed(i)
    \/ \E i \in DOMAIN submissions : SubmitSucceeded(i)
    \/ \E i \in DOMAIN productFetches : StoreSelectProducts(i)
    \/ \E i \in DOMAIN productFetches : ProductsFetched(i)
    \/ \E i \in DOMAIN saleFetches : StoreSelectSales(i)
    \/ \E i \in DOMAIN saleFetches : SalesFetched(i)
    \/ \E k \in DOMAIN sales : MarkAsFulfilled(k)
    \/ \E i \in DOMAIN updates : StoreUpdateStatus(i)
    \/ \E i \in DOMAIN updates : StatusUpdated(i)
    \/ \E i \in DOMAIN updates : StatusUpdateFailed(i)

FetchesSucceedSpec == InitReload /\ [][NextFetchesSucceed]_vars

(***************************************************************************)
(* The metrics over any two snapshots: setProducts and setSales with any   *)
(* lists a fetch can deliver, each followed by the effect on               *)
(* [sales, products] that recomputes the metrics.                          *)
(***************************************************************************)
\* the sum f[1] + ... + f[n]
RECURSIVE SumTo(_, _)
SumTo(f, n) == IF n = 0 THEN 0 ELSE f[n] + SumTo(f, n - 1)

\* Sales in a delivered sales list, and Line Items in one of its Sales.
MaxSnapshotSales == 2
MaxSaleItems == 2

\* product rows as the store may hold them: the seed's, or with another cost
ProductRows(id) ==
    {[SeedProduct(id) EXCEPT !.cost = c] : c \in {Cost, Price + 1}}

\* products lists ordered by name; a product may be missing from the store
ProductSnapshots ==
    {<<>>}
        \cup {<<a>> : a \in ProductRows("p1") \cup ProductRows("p2")}
        \cup {<<a, b>> : a \in ProductRows("p1"), b \in ProductRows("p2")}

ItemShapes ==
    {[product_id |-> id, quantity |-> q] :
        id \in Range(ProductIds), q \in 1..(InitStock + 1)}

ItemLists == UNION {[1..n -> ItemShapes] : n \in 0..MaxSaleItems}

\* the Sale at position k of a delivered list, with Line Items of the shapes
SnapshotSale(k, shapes) ==
    LET items == [j \in DOMAIN shapes |->
                     [id |-> j, sale_id |-> k,
                      product_id |-> shapes[j].product_id,
                      quantity |-> shapes[j].quantity,
                      unit_price |-> Price,
                      subtotal |-> Price * shapes[j].quantity,
                      products |-> [name |-> ProductName(shapes[j].product_id)]]]
    IN  [id |-> k, customer_name |-> <<"A">>, status |-> "not_fulfilled",
         sale_date |-> k, sale_items |-> items,
         total_amount |-> IF shapes = <<>> THEN Price
                          ELSE SumTo([j \in DOMAIN items |-> items[j].subtotal],
                                     Len(items))]

SaleSnapshots ==
    UNION {{[k \in 1..n |-> SnapshotSale(k, f[k])] : f \in [1..n -> ItemLists]} :
              n \in 0..MaxSnapshotSales}

MetricsInit ==
    /\ dbProducts = [id \in Range(ProductIds) |-> SeedProduct(id)]
    /\ dbSales = <<>>
    /\ dbItems = <<>>
    /\ products = <<>>
    /\ sales = <<>>
    /\ metrics = calculateMetrics(sales, products)
    /\ customerName = <<>>
    /\ cart = <<>>
    /\ isSubmitting = FALSE
    /\ submissions = <<>>
    /\ productFetches = <<>>
    /\ saleFetches = <<>>
    /\ updates = <<>>

\* setProducts(data), then the effect
ProductsReplaced(data) ==
    /\ products' = data
    /\ metrics' = calculateMetrics(sales, products')
    /\ UNCHANGED <<storeVars, sales, formVars, isSubmitting, callVars>>

\* setSales(data), then the effect
SalesReplaced(data) ==
    /\ sales' = data
    /\ metrics' = calculateMetrics(sales', products)
    /\ UNCHANGED <<storeVars, products, formVars, isSubmitting, callVars>>

MetricsNext ==
    \/ \E data \in ProductSnapshots : ProductsReplaced(data)
    \/ \E data \in SaleSnapshots : SalesReplaced(data)

MetricsSpec == MetricsInit /\ [][MetricsNext]_vars

(***************************************************************************)
(* Properties.                                                             *)
(***************************************************************************)
RECURSIVE QuantityOf(_, _)
\* the units of product id in a sequence of rows
QuantityOf(rows, id) ==
    IF rows = <<>> THEN 0
    ELSE (IF Head(rows).product_id = id THEN Head(rows).quantity ELSE 0)
             + QuantityOf(Tail(rows), id)

RECURSIVE SumSubtotals(_)
SumSubtotals(rows) ==
    IF rows = <<>> THEN 0 ELSE Head(rows).subtotal + SumSubtotals(Tail(rows))

\* the persisted Line Items of one Sale, and the Sale rows with one id
ItemsOfSale(saleId) ==
    Filter(dbItems, {k \in DOMAIN dbItems : dbItems[k].sale_id = saleId})
SalesWithId(saleId) == {k \in DOMAIN dbSales : dbSales[k].id = saleId}

\* the submission at position i leaves the call list in this step
Leaves(i) == submissions' = RemoveAt(submissions, i)

\* C1: in every reachable state every Product's stock in the store is >= 0.
C1_StockNonNegative ==
    \A id \in Range(ProductIds) : dbProducts[id].stock >= 0

\* the trigger has refused a Line Items insert
C1_Witness ==
    \E i \in DOMAIN submissions :
        /\ submissions[i].pc = "items_err"
        /\ \E id \in Range(ProductIds) :
              QuantityOf(submissions[i].cart, id) > dbProducts[id].stock

\* C2: a Line Items insert in which the rows of some Product ask for more than
\* its store stock is rejected as a whole: it does not succeed, no Line Item is
\* persisted and no Product's stock changes.
C2_InsertRejectedAsAWhole ==
    [][\A i \in DOMAIN submissions :
          (/\ submissions[i].pc = "items_req"
           /\ \E id \in Range(ProductIds) :
                 QuantityOf(SaleItems(submissions[i]), id) > dbProducts[id].stock)
          => /\ dbItems' = dbItems
             /\ dbProducts' = dbProducts
             /\ i \in DOMAIN submissions' => submissions'[i].pc # "items_ok"]_vars

\* a rejected insert one of whose rows would have fit on its own
C2_Witness ==
    \E i \in DOMAIN submissions :
        /\ submissions[i].pc = "items_err"
        /\ Len(submissions[i].cart) = 2
        /\ \E j \in DOMAIN submissions[i].cart :
              submissions[i].cart[j].quantity
                  <= dbProducts[submissions[i].cart[j].product_id].stock
        /\ dbItems = <<>>

\* C3: every Product's store stock is its seeded stock minus the units of the
\* persisted Line Items that reference it, and a stock changes only in the step
\* that persists Line Items, by exactly the units persisted.
C3_StockIsSeedMinusSold ==
    /\ [](\A id \in Range(ProductIds) :
             dbProducts[id].stock = InitStock - QuantityOf(dbItems, id))
    /\ [][dbProducts' # dbProducts
             => /\ Len(dbItems') > Len(dbItems)
                /\ SubSeq(dbItems', 1, Len(dbItems)) = dbItems
                /\ dbSales' = dbSales
                /\ \A id \in Range(ProductIds) :
                      dbProducts'[id].stock
                          = dbProducts[id].stock
                              - QuantityOf(SubSeq(dbItems', Len(dbItems) + 1,
                                                  Len(dbItems')), id)]_vars

\* Line Items are persisted and stock is gone
C3_Witness ==
    /\ Len(dbItems) = 2
    /\ \A id \in Range(ProductIds) : dbProducts[id].stock = InitStock - 1

\* the rows a submission sends are one per cart entry, priced from the
\* products snapshot P of its closure
RowsMatchCart(rows, sub) ==
    /\ Len(rows) = Len(sub.cart)
    /\ \A j \in DOMAIN sub.cart :
          /\ rows[j].sale_id = sub.saleId
          /\ rows[j].product_id = sub.cart[j].product_id
          /\ rows[j].quantity = sub.cart[j].quantity
          /\ \E k \in DOMAIN sub.products :
                /\ sub.products[k].id = sub.cart[j].product_id
                /\ rows[j].unit_price = sub.products[k].price
          /\ rows[j].subtotal = rows[j].unit_price * rows[j].quantity

\* the store holds one Sale of the submission, whose total_amount is the cart
\* total and the sum of the subtotals of rows
SaleTotalIs(rows, sub) ==
    /\ Cardinality(SalesWithId(sub.saleId)) = 1
    /\ \A k \in SalesWithId(sub.saleId) :
          /\ dbSales[k].total_amount = getCartTotal(sub.cart, sub.products)
          /\ dbSales[k].total_amount = SumSubtotals(rows)

\* C4 as claimed: after a successful submission the store holds one new Sale
\* with status not_fulfilled and one Line Item per cart entry with the cart's
\* quantity, the snapshot's price and subtotal = unit_price x quantity, and the
\* Sale's total_amount is the cart total and the sum of the subtotals.
C4_Original ==
    \A i \in DOMAIN submissions :
        submissions[i].pc = "items_ok"
        => /\ RowsMatchCart(ItemsOfSale(submissions[i].saleId), submissions[i])
           /\ SaleTotalIs(ItemsOfSale(submissions[i].saleId), submissions[i])
           /\ \A k \in SalesWithId(submissions[i].saleId) :
                 dbSales[k].status = "not_fulfilled"

\* C4 as amended: the Sale is created with status not_fulfilled, and after a
\* successful submission the store holds that one Sale and one Line Item per
\* cart entry with the cart's quantity, the snapshot's price and subtotal =
\* unit_price x quantity, the Sale's total_amount being the cart total and the
\* sum of the subtotals; the rows sent and the total hold these values from
\* the moment the Sale is inserted.
C4_SaleAndItemsMatchCart ==
    /\ [](\A i \in DOMAIN submissions :
             /\ submissions[i].pc = "items_ok"
                => /\ RowsMatchCart(ItemsOfSale(submissions[i].saleId),
                                    submissions[i])
                   /\ SaleTotalIs(ItemsOfSale(submissions[i].saleId),
                                  submissions[i])
             /\ submissions[i].pc # "sale_req"
                => /\ RowsMatchCart(SaleItems(submissions[i]), submissions[i])
                   /\ SaleTotalIs(SaleItems(submissions[i]), submissions[i]))
    /\ [][dbSales' # dbSales /\ Len(dbSales') # Len(dbSales)
             => /\ Len(dbSales') = Len(dbSales) + 1
                /\ SubSeq(dbSales', 1, Len(dbSales)) = dbSales
                /\ dbSales'[Len(dbSales')].status = "not_fulfilled"]_vars

\* a submission of a cart of two entries has succeeded
C4_Witness ==
    \E i \in DOMAIN submissions :
        /\ submissions[i].pc = "items_ok"
        /\ Len(submissions[i].cart) = 2
        /\ Len(ItemsOfSale(submissions[i].saleId)) = 2

\* C5: when the Sale insert has succeeded and the Line Items insert fails, the
\* Sale row is in the store with zero Line Items and its non-zero
\* total_amount; the failing steps of the submission change nothing in the
\* store (no stock change, no compensating delete), and no step ever removes a
\* Sale row or changes its total_amount.
C5_OrphanSaleStays ==
    /\ [](\A i \in DOMAIN submissions :
             submissions[i].pc = "items_err"
             => /\ Cardinality(SalesWithId(submissions[i].saleId)) = 1
                /\ ItemsOfSale(submissions[i].saleId) = <<>>
                /\ \A k \in SalesWithId(submissions[i].saleId) :
                      dbSales[k].total_amount # 0)
    /\ [][/\ \A i \in DOMAIN submissions :
                (/\ submissions[i].pc \in {"items_req", "items_err"}
                 /\ \/ Leaves(i)
                    \/ /\ i \in DOMAIN submissions'
                       /\ submissions'[i].pc = "items_err"
                       /\ submissions[i].pc = "items_req")
                => /\ dbSales' = dbSales
                   /\ dbItems' = dbItems
                   /\ dbProducts' = dbProducts
          /\ \A k \in DOMAIN dbSales :
                /\ k \in DOMAIN dbSales'
                /\ dbSales'[k].id = dbSales[k].id
                /\ dbSales'[k].total_amount = dbSales[k].total_amount]_vars

\* the failed submission has ended and its Sale is in the store without items
C5_Witness ==
    /\ submissions = <<>>
    /\ ~isSubmitting
    /\ Len(dbSales) = 1
    /\ dbSales[1].total_amount > 0
    /\ dbItems = <<>>
    /\ \A id \in Range(ProductIds) : dbProducts[id].stock = InitStock

\* C6: no step of a submission that has not succeeded (the click, the store's
\* handling of its inserts, the handling of the failure) changes the cart or
\* the customer name or issues a fetch of products or sales.
C6_FailedSubmissionKeepsForm ==
    [][(/\ submissions' # submissions
        /\ ~ \E i \in DOMAIN submissions :
                submissions[i].pc = "items_ok" /\ Leaves(i))
       => /\ cart' = cart
          /\ customerName' = customerName
          /\ productFetches' = productFetches
          /\ saleFetches' = saleFetches]_vars

\* a submission failed at the Line Items insert and the form is still filled
C6_Witness ==
    /\ submissions = <<>>
    /\ Len(dbSales) = 1
    /\ dbItems = <<>>
    /\ cart # <<>>
    /\ Trim(customerName) = dbSales[1].customer_name
    /\ productFetches = <<>>
    /\ saleFetches = <<>>

\* C7: whenever the customer name is empty after trimming, or the cart is
\* empty, handleSaleSubmit returns at its guards: it adds no call and leaves
\* isSubmitting, the cart and the customer name as they are.
C7_InvalidSubmitDoesNothing ==
    (Trim(customerName) = <<>> \/ Len(cart) = 0)
    => handleSaleSubmit = [isSubmitting |-> isSubmitting,
                           submissions |-> submissions,
                           cart |-> cart,
                           customerName |-> customerName]

\* the Record Sale button can be clicked while the name is only whitespace
C7_Witness ==
    /\ ~RecordSaleDisabled
    /\ customerName # <<>>
    /\ Trim(customerName) = <<>>

\* C8: addToCart of a product of the snapshot with a quantity <= 0 or above
\* the product's stock in the snapshot returns at its guard: the cart, the
\* selected product and the quantity field stay as they are.
C8_InvalidAddRejected ==
    \A sel \in Selections, q \in QuantityInputs :
        (/\ q # <<>>
         /\ parseInt(q) # NaN
         /\ \E k \in DOMAIN products :
               /\ products[k].id = sel
               /\ (parseInt(q) <= 0 \/ parseInt(q) > products[k].stock))
        => addToCart(sel, q) = [cart |-> cart, selectedProduct |-> sel,
                                quantity |-> q, accepted |-> FALSE]

\* the snapshot shows a product out of stock while the cart holds an entry
C8_Witness ==
    /\ cart # <<>>
    /\ \E k \in DOMAIN products : products[k].stock = 0

\* C9: the cart never holds two entries of one product; an accepted add of a
\* product in the cart adds the quantity to its entry, keeping every position
\* and every other entry, and an accepted add of another product appends one
\* entry.
C9_OneEntryPerProduct ==
    /\ \A i, j \in DOMAIN cart :
          cart[i].product_id = cart[j].product_id => i = j
    /\ \A sel \in Selections, q \in QuantityInputs :
          LET r == addToCart(sel, q)
          IN  r.accepted
              => IF \E i \in DOMAIN cart : cart[i].product_id = sel
                 THEN /\ Len(r.cart) = Len(cart)
                      /\ \A i \in DOMAIN cart :
                            /\ r.cart[i].product_id = cart[i].product_id
                            /\ r.cart[i].quantity =
                                  IF cart[i].product_id = sel
                                  THEN cart[i].quantity + parseInt(q)
                                  ELSE cart[i].quantity
                 ELSE r.cart = Append(cart, [product_id |-> sel,
                                             quantity |-> parseInt(q)])

\* two entries, one of them merged from two adds
C9_Witness ==
    /\ Len(cart) = 2
    /\ \E i \in DOMAIN cart : cart[i].quantity = 2

\* C10: while the products snapshot is the one of the seed (no Line Item has
\* been persisted, so no other snapshot has been seen), every cart entry's
\* quantity is positive and at most the product's stock in the snapshot.
C10_CartWithinStock ==
    dbItems = <<>>
    => \A i \in DOMAIN cart :
          /\ cart[i].quantity > 0
          /\ \A k \in DOMAIN products :
                products[k].id = cart[i].product_id
                => cart[i].quantity <= products[k].stock

\* the units of every Line Item of every Sale of the sales snapshot
SnapshotUnits ==
    SumTo([k \in DOMAIN sales |->
              SumTo([j \in DOMAIN sales[k].sale_items |->
                        sales[k].sale_items[j].quantity],
                    Len(sales[k].sale_items))],
          Len(sales))

SnapshotRevenue ==
    SumTo([k \in DOMAIN sales |-> sales[k].total_amount], Len(sales))

\* quantity x (unit_price - current cost) of a Line Item whose product is in
\* the products snapshot, 0 for any other
ProfitOf(item) ==
    IF \E k \in DOMAIN products : products[k].id = item.product_id
    THEN LET k == CHOOSE k \in DOMAIN products :
                     products[k].id = item.product_id
         IN  item.quantity * (item.unit_price - products[k].cost)
    ELSE 0

AbsentItem(item) ==
    \A k \in DOMAIN products : products[k].id # item.product_id

\* C11: in every state the metrics are those of the two current snapshots:
\* totalSales is the number of Sales, totalRevenue the sum of their
\* total_amount and totalUnits the sum of the quantity of all their Line
\* Items, whatever the metrics were before.
C11_MetricsOfSnapshots ==
    /\ metrics.totalSales = Len(sales)
    /\ metrics.totalRevenue = SnapshotRevenue
    /\ metrics.totalUnits = SnapshotUnits

\* two Sales, one without Line Items and one with two
C11_Witness ==
    /\ Len(sales) = 2
    /\ sales[1].sale_items = <<>>
    /\ Len(sales[2].sale_items) = 2
    /\ metrics.totalSales = 2
    /\ metrics.totalRevenue > sales[2].total_amount

\* C12: totalProfit is the sum of quantity x (unit_price - current cost) over
\* the Line Items whose product is in the products snapshot; a Line Item of
\* an absent product adds 0 to it and is still counted in totalUnits, its
\* Sale's total_amount still in totalRevenue.
C12_ProfitOfKnownProducts ==
    /\ metrics.totalProfit =
          SumTo([k \in DOMAIN sales |->
                    SumTo([j \in DOMAIN sales[k].sale_items |->
                              ProfitOf(sales[k].sale_items[j])],
                          Len(sales[k].sale_items))],
                Len(sales))
    /\ (\A k \in DOMAIN sales : \A j \in DOMAIN sales[k].sale_items :
            AbsentItem(sales[k].sale_items[j]))
       => /\ metrics.totalProfit = 0
          /\ metrics.totalUnits = SnapshotUnits
          /\ metrics.totalRevenue = SnapshotRevenue

\* one Sale with a Line Item of a product of the snapshot and a Line Item of
\* an absent product
C12_Witness ==
    /\ Len(sales) = 1
    /\ Len(sales[1].sale_items) = 2
    /\ AbsentItem(sales[1].sale_items[1])
    /\ ~AbsentItem(sales[1].sale_items[2])
    /\ metrics.totalProfit = ProfitOf(sales[1].sale_items[2])
    /\ metrics.totalProfit # 0
    /\ metrics.totalUnits =
          sales[1].sale_items[1].quantity + sales[1].sale_items[2].quantity

\* C13: every Sale is inserted with status not_fulfilled, a status is always
\* not_fulfilled or fulfilled, and no step takes a Sale from fulfilled to any
\* other status or removes it.
C13_StatusOnlyMovesToFulfilled ==
    /\ [](\A k \in DOMAIN dbSales :
             dbSales[k].status \in {"not_fulfilled", "fulfilled"})
    /\ [][/\ \A k \in DOMAIN dbSales :
                /\ k \in DOMAIN dbSales'
                /\ dbSales'[k].id = dbSales[k].id
                /\ dbSales[k].status = "fulfilled"
                   => dbSales'[k].status = "fulfilled"
          /\ \A k \in DOMAIN dbSales' \ DOMAIN dbSales :
                dbSales'[k].status = "not_fulfilled"]_vars

\* the store has handled an update of a Sale that the snapshot already shows
\* as fulfilled (the button was clicked twice before the re-fetch arrived),
\* and the session has inserted a Sale of its own
C13_Witness ==
    /\ Len(dbSales) = 2
    /\ \E i \in DOMAIN updates :
          /\ updates[i].stage = "ok"
          /\ \E k \in DOMAIN sales :
                /\ sales[k].id = updates[i].saleId
                /\ sales[k].status = "fulfilled"
          /\ \E k \in DOMAIN dbSales :
                /\ dbSales[k].id = updates[i].saleId
                /\ dbSales[k].status = "fulfilled"

\* C14: every step of markAsFulfilled (the click, the store's update, the
\* handling of its result) leaves the Line Items, every Product, the cart and
\* the customer name as they are, and changes no Sale row except the status
\* of the Sale it was called for, which becomes fulfilled.
C14_FulfilChangesOnlyStatus ==
    [][updates' # updates
       => /\ dbItems' = dbItems
          /\ dbProducts' = dbProducts
          /\ cart' = cart
          /\ customerName' = customerName
          /\ Len(dbSales') = Len(dbSales)
          /\ \A k \in DOMAIN dbSales :
                \/ dbSales'[k] = dbSales[k]
                \/ /\ \E i \in DOMAIN updates :
                         /\ updates[i].stage = "req"
                         /\ updates[i].saleId = dbSales[k].id
                         /\ i \in DOMAIN updates'
                         /\ updates'[i].stage = "ok"
                   /\ dbSales[k].status = "not_fulfilled"
                   /\ dbSales'[k] = [dbSales[k] EXCEPT !.status = "fulfilled"]]_vars

\* one of two Sales has been fulfilled, the other has not, and the form is
\* filled
C14_Witness ==
    /\ Len(dbSales) = 2
    /\ \E k \in DOMAIN dbSales : dbSales[k].status = "fulfilled"
    /\ \E k \in DOMAIN dbSales : dbSales[k].status = "not_fulfilled"
    /\ updates = <<>>
    /\ cart # <<>>
    /\ customerName # <<>>

\* the pending list: sales.filter(sale => sale.status === 'not_fulfilled')
Pending(ss) ==
    Filter(ss, {k \in DOMAIN ss : ss[k].status = "not_fulfilled"})

\* C15: a Sale that the sales snapshot shows as fulfilled (markAsFulfilled
\* has succeeded and a re-fetch has delivered it) is not in the pending list
\* of any later snapshot.
C15_FulfilledNeverPendingAgain ==
    [][\A k \in DOMAIN sales :
          sales[k].status = "fulfilled"
          => \A j \in DOMAIN Pending(sales') :
                Pending(sales')[j].id # sales[k].id]_vars

\* C16: the step in which a submission ends after both inserts succeeded
\* empties the cart and the customer name and issues fetchProducts() and
\* fetchSales(); at that point the Sale and one Line Item per cart entry are
\* in the store; no other step issues a fetchProducts(), and a fetchSales()
\* is issued otherwise only by a markAsFulfilled whose update succeeded.
C16_SuccessResetsFormAndRefetches ==
    /\ [](\A i \in DOMAIN submissions :
             submissions[i].pc = "items_ok"
             => /\ Cardinality(SalesWithId(submissions[i].saleId)) = 1
                /\ Len(ItemsOfSale(submissions[i].saleId))
                      = Len(submissions[i].cart)
                /\ Len(submissions[i].cart) > 0)
    /\ [][/\ \A i \in DOMAIN submissions :
                (submissions[i].pc = "items_ok" /\ Leaves(i))
                => /\ cart' = <<>>
                   /\ customerName' = <<>>
                   /\ productFetches' = Append(productFetches, NewFetch)
                   /\ saleFetches' = Append(saleFetches, NewFetch)
          /\ Len(productFetches') > Len(productFetches)
             => \E i \in DOMAIN submissions :
                   submissions[i].pc = "items_ok" /\ Leaves(i)
          /\ Len(saleFetches') > Len(saleFetches)
             => \/ \E i \in DOMAIN submissions :
                      submissions[i].pc = "items_ok" /\ Leaves(i)
                \/ \E i \in DOMAIN updates :
                      /\ updates[i].stage = "ok"
                      /\ updates' = RemoveAt(updates, i)]_vars

\* a submission has succeeded: its Line Items are in the store, the form is
\* empty and its two fetches are in flight
C16_Witness ==
    /\ submissions = <<>>
    /\ ~isSubmitting
    /\ dbItems # <<>>
    /\ cart = <<>>
    /\ customerName = <<>>
    /\ products # <<>>
    /\ Len(productFetches) = 1
    /\ productFetches[1].stage = "req"
    /\ \E i \in DOMAIN saleFetches : saleFetches[i].stage = "req"

\* C17 as claimed: while a submission is awaiting the data service, a second
\* submit of a form that passes validation is not prevented.
C17_Original ==
    (/\ submissions # <<>>
     /\ Trim(customerName) # <<>>
     /\ Len(cart) > 0)
    => ~RecordSaleDisabled

\* C17 as amended: while a submission is awaiting the data service the
\* Record Sale button is disabled, so at most one submission is in flight
\* and isSubmitting is true exactly while one is.
C17_OneSubmissionAtATime ==
    /\ Len(submissions) <= 1
    /\ submissions # <<>> => RecordSaleDisabled
    /\ isSubmitting <=> submissions # <<>>

\* a submission is in flight before its Sale is inserted, and the form
\* would pass validation
C17_Witness ==
    /\ Len(submissions) = 1
    /\ submissions[1].pc = "sale_req"
    /\ SessionSales < MaxSales
    /\ Trim(customerName) # <<>>
    /\ Len(cart) > 0
    /\ cart = submissions[1].cart

\* C18: a submission that passed validation (isSubmitting is true) eventually
\* ends with isSubmitting false; isSubmitting is never left true without a
\* submission in flight, and in every state, so after every failure, a valid
\* add is accepted, a valid submit of an idle form starts a submission, and
\* Fulfill of a pending Sale issues its update.
C18_SessionStaysUsable ==
    /\ isSubmitting ~> ~isSubmitting
    /\ [](submissions # <<>> ~> submissions = <<>>)
    /\ [](/\ submissions = <<>> => ~isSubmitting
          /\ \A sel \in Selections, q \in QuantityInputs :
                (\E k \in DOMAIN products :
                    /\ products[k].id = sel
                    /\ q # <<>>
                    /\ parseInt(q) >= 1
                    /\ parseInt(q) <= products[k].stock)
                => addToCart(sel, q).accepted
          /\ (submissions = <<>> /\ Trim(customerName) # <<>> /\ Len(cart) > 0)
             => /\ ~RecordSaleDisabled
                /\ handleSaleSubmit.isSubmitting
                /\ handleSaleSubmit.submissions = <<NewSubmission>>
          /\ \A k \in DOMAIN sales :
                (sales[k].status = "not_fulfilled" /\ Len(updates) < MaxCalls)
                => ENABLED MarkAsFulfilled(k))

\* after a failed Line Items insert the form is still filled and can be
\* submitted again
C18_Witness ==
    /\ submissions = <<>>
    /\ SessionSales = 1
    /\ dbItems = <<>>
    /\ ~isSubmitting
    /\ ~RecordSaleDisabled
    /\ Trim(customerName) # <<>>
    /\ addToCart("p2", <<"1">>).accepted

\* C19: no step removes a Line Item or a Sale or changes a Line Item's
\* sale_id, product_id, quantity, unit_price or subtotal, or a Sale's id,
\* total_amount or customer_name.
C19_RowsImmutable ==
    [][/\ \A k \in DOMAIN dbItems :
             /\ k \in DOMAIN dbItems'
             /\ dbItems'[k] = dbItems[k]
       /\ \A k \in DOMAIN dbSales :
             /\ k \in DOMAIN dbSales'
             /\ dbSales'[k].id = dbSales[k].id
             /\ dbSales'[k].total_amount = dbSales[k].total_amount
             /\ dbSales'[k].customer_name = dbSales[k].customer_name]_vars

\* the Sale recorded before is still there after a submission of the session
\* succeeded, it was fulfilled and the snapshots were fetched again
C19_Witness ==
    /\ Len(dbSales) = 2
    /\ Len(dbItems) = 2
    /\ dbSales[1] = [EarlierSale EXCEPT !.status = "fulfilled"]
    /\ dbItems[1] = EarlierItem
    /\ sales = SelectSales
    /\ products = SelectProducts
    /\ submissions = <<>>

\* no data-service call is in flight
Quiet ==
    /\ submissions = <<>>
    /\ productFetches = <<>>
    /\ saleFetches = <<>>
    /\ updates = <<>>

\* C20: when no fetch has failed, no call is in flight and every Sale of the
\* store has its Line Items (no submission failed half way), the products and
\* sales snapshots are the store's products and sales.
C20_SnapshotsCurrentWhenQuiet ==
    (/\ Quiet
     /\ \A k \in DOMAIN dbSales : ItemsOfSale(dbSales[k].id) # <<>>)
    => /\ products = SelectProducts
       /\ sales = SelectSales

\* a step in which the fetch at position i of the list fs ends in the catch
FetchFails(fs, fsNext, i) ==
    /\ fs[i].stage = "req"
    /\ fsNext = RemoveAt(fs, i)

\* C21: a step in which a fetchProducts or a fetchSales call fails leaves
\* both snapshots, the metrics, the cart and the customer name as they are;
\* the products snapshot changes only in a step that applies the answer of a
\* fetchProducts call, and the sales snapshot only in a step that applies the
\* answer of a fetchSales call.
C21_FailedFetchKeepsSnapshots ==
    [][/\ (\/ \E i \in DOMAIN productFetches :
                 FetchFails(productFetches, productFetches', i)
           \/ \E i \in DOMAIN saleFetches :
                 FetchFails(saleFetches, saleFetches', i))
          => /\ products' = products
             /\ sales' = sales
             /\ metrics' = metrics
             /\ cart' = cart
             /\ customerName' = customerName
       /\ products' # products
          => \E i \in DOMAIN productFetches :
                /\ productFetches[i].stage = "ok"
                /\ products' = productFetches[i].data
                /\ productFetches' = RemoveAt(productFetches, i)
       /\ sales' # sales
          => \E i \in DOMAIN saleFetches :
                /\ saleFetches[i].stage = "ok"
                /\ sales' = saleFetches[i].data
                /\ saleFetches' = RemoveAt(saleFetches, i)]_vars

\* the fetchProducts call of a successful submission has failed: nothing is
\* in flight, the products snapshot still shows the stock from before the
\* Sale, and the user has put a product into the cart again
C21_Witness ==
    /\ Quiet
    /\ dbItems # <<>>
    /\ products # <<>>
    /\ products # SelectProducts
    /\ sales = SelectSales
    /\ metrics = calculateMetrics(sales, products)
    /\ cart # <<>>

\* C22: the store accepts the update of markAsFulfilled whatever the status
\* of the Sale is, and when the Sale is already fulfilled the update leaves
\* every Sale, every Line Item and every Product as it is.
C22_FulfilIsIdempotent ==
    /\ [](\A i \in DOMAIN updates :
             updates[i].stage = "req" => ENABLED StoreUpdateStatus(i))
    /\ [][\A i \in DOMAIN updates :
             (/\ updates[i].stage = "req"
              /\ i \in DOMAIN updates'
              /\ updates'[i].stage = "ok"
              /\ \E k \in DOMAIN dbSales :
                    /\ dbSales[k].id = updates[i].saleId
                    /\ dbSales[k].status = "fulfilled")
             => /\ dbSales' = dbSales
                /\ dbItems' = dbItems
                /\ dbProducts' = dbProducts]_vars

\* the store has handled a second update of the earlier Sale (Fulfill was
\* clicked again while the snapshot still showed it pending): the re-fetch of
\* the first update and the re-fetch of the session's own submission are still
\* in flight, and the session's own Sale is still not fulfilled
C22_Witness ==
    /\ Len(dbSales) = 2
    /\ dbSales[1] = [EarlierSale EXCEPT !.status = "fulfilled"]
    /\ dbSales[2].status = "not_fulfilled"
    /\ updates = <<[stage |-> "ok", saleId |-> EarlierSale.id]>>
    /\ Len(saleFetches) = 2

====
